---- MODULE Spec2Model ----
(***************************************************************************)
(* A model of tokml (src/lib/index.ts): the conversion of a GeoJSON value  *)
(* into a KML document string.                                             *)
(*                                                                         *)
(* Representation.                                                         *)
(*  - A JavaScript string is a sequence of characters, each character a    *)
(*    one-character TLA+ string.  A word that the source writes as a       *)
(*    literal and never takes apart (an element name, an attribute name, a *)
(*    property key, the marker URL prefix) is one element of the sequence. *)
(*  - A JavaScript scalar is a record [t, s, n]: t is its typeof ("null"   *)
(*    for null), s the characters of a string, n the value of a number in  *)
(*    tenths (15 is 1.5) or of a boolean (1 is true).                      *)
(*  - An object is a record with a field per property the model reads; a   *)
(*    property map is a sequence of [k, v] entries in insertion order.     *)
(***************************************************************************)
EXTENDS Integers, Sequences, FiniteSets

VARIABLES fn, args, pc, todo, styleHashesArray, parts, result, returned

vars == <<fn, args, pc, todo, styleHashesArray, parts, result, returned>>

(***************************************************************************)
(* JavaScript values                                                       *)
(***************************************************************************)
Undefined == [t |-> "undefined", s |-> <<>>, n |-> 0]
Null == [t |-> "null", s |-> <<>>, n |-> 0]
Str(s) == [t |-> "string", s |-> s, n |-> 0]
Num(n) == [t |-> "number", s |-> <<>>, n |-> n]
Bool(b) == [t |-> "boolean", s |-> <<>>, n |-> IF b THEN 1 ELSE 0]

\* v == null
IsNullish(v) == v.t \in {"undefined", "null"}

\* ToBoolean(v)
Truthy(v) ==
  CASE v.t = "string" -> v.s # <<>>
    [] v.t = "number" -> v.n # 0
    [] v.t = "boolean" -> v.n = 1
    [] OTHER -> FALSE

RECURSIVE Concat(_)
\* Array.prototype.join('') of a sequence of strings
Concat(ss) == IF ss = <<>> THEN <<>> ELSE Head(ss) \o Concat(Tail(ss))

RECURSIVE Join(_, _)
\* Array.prototype.join(sep)
Join(ss, sep) ==
  IF ss = <<>> THEN <<>>
  ELSE IF Len(ss) = 1 THEN Head(ss)
  ELSE Head(ss) \o sep \o Join(Tail(ss), sep)

Digits == <<"0", "1", "2", "3", "4", "5", "6", "7", "8", "9", "a", "b", "c", "d", "e", "f">>

RECURSIVE NatToString(_, _)
\* Number.prototype.toString(radix) of a non-negative integer
NatToString(k, radix) ==
  IF k < radix THEN <<Digits[k + 1]>>
  ELSE NatToString(k \div radix, radix) \o <<Digits[(k % radix) + 1]>>

\* String(number) of a number held in tenths
NumberToString(n) ==
  LET a == IF n < 0 THEN -n ELSE n
      sign == IF n < 0 THEN <<"-">> ELSE <<>>
      frac == IF a % 10 = 0 THEN <<>> ELSE <<".", Digits[(a % 10) + 1]>>
  IN sign \o NatToString(a \div 10, 10) \o frac

\* `${v}`
JsToString(v) ==
  CASE v.t = "string" -> v.s
    [] v.t = "number" -> NumberToString(v.n)
    [] v.t = "boolean" -> IF v.n = 1 THEN <<"t", "r", "u", "e">> ELSE <<"f", "a", "l", "s", "e">>
    [] v.t = "null" -> <<"n", "u", "l", "l">>
    [] OTHER -> <<"u", "n", "d", "e", "f", "i", "n", "e", "d">>

RECURSIVE ReplaceFirst(_, _)
\* String.prototype.replace(c, ''): only the first occurrence goes
ReplaceFirst(s, c) ==
  IF s = <<>> THEN <<>>
  ELSE IF Head(s) = c THEN Tail(s)
  ELSE <<Head(s)>> \o ReplaceFirst(Tail(s), c)

Upper == <<"A", "B", "C", "D", "E", "F", "G", "H", "I", "J", "K", "L", "M",
           "N", "O", "P", "Q", "R", "S", "T", "U", "V", "W", "X", "Y", "Z">>
Lower == <<"a", "b", "c", "d", "e", "f", "g", "h", "i", "j", "k", "l", "m",
           "n", "o", "p", "q", "r", "s", "t", "u", "v", "w", "x", "y", "z">>

LowerChar(c) ==
  IF \E i \in 1..Len(Upper) : Upper[i] = c
  THEN Lower[CHOOSE i \in 1..Len(Upper) : Upper[i] = c]
  ELSE c

\* String.prototype.toLowerCase
ToLowerCase(s) == [i \in 1..Len(s) |-> LowerChar(s[i])]

(***************************************************************************)
(* General helpers: encode                                                 *)
(***************************************************************************)
escapeMap(c) ==
  CASE c = ">" -> <<"&", "g", "t", ";">>
    [] c = "<" -> <<"&", "l", "t", ";">>
    [] c = "'" -> <<"&", "a", "p", "o", "s", ";">>
    [] c = "\"" -> <<"&", "q", "u", "o", "t", ";">>
    [] c = "&" -> <<"&", "a", "m", "p", ";">>
    [] OTHER -> <<c>>

RECURSIVE ReplaceAllChar(_, _, _)
ReplaceAllChar(s, c, by) ==
  IF s = <<>> THEN <<>>
  ELSE (IF Head(s) = c THEN by ELSE <<Head(s)>>) \o ReplaceAllChar(Tail(s), c, by)

\* A plausible slip: one replace per character, the ampersand last, so the
\* ampersands of the entities already written are escaped again.
encode_sequential(v) ==
  IF IsNullish(v) THEN <<>>
  ELSE LET s0 == JsToString(v)
           s1 == ReplaceAllChar(s0, ">", escapeMap(">"))
           s2 == ReplaceAllChar(s1, "<", escapeMap("<"))
           s3 == ReplaceAllChar(s2, "'", escapeMap("'"))
           s4 == ReplaceAllChar(s3, "\"", escapeMap("\""))
       IN ReplaceAllChar(s4, "&", escapeMap("&"))

\* encode(string): one pass of /([&"<>'])/g over `${string}`
encode(v) ==
  IF IsNullish(v) THEN <<>>
  ELSE LET s == JsToString(v)
       IN Concat([i \in 1..Len(s) |-> escapeMap(s[i])])

(***************************************************************************)
(* Style helpers: hexToKmlColor                                            *)
(***************************************************************************)
IsHexDigit(c) == \E i \in 1..Len(Digits) : Digits[i] = c

IsWhiteSpace(c) == c = " "

\* Number.isNaN(Number(`0x${p}`)) for a two-character p: the literal is a
\* number when both characters are hex digits, and also when the second is
\* white space, which Number() trims.
HexPairIsNaN(p) ==
  ~(IsHexDigit(p[1]) /\ (IsHexDigit(p[2]) \/ IsWhiteSpace(p[2])))

\* ('0' + Math.floor(opacity * 255).toString(16)).slice(-2), opacity in tenths
AlphaHex(n) ==
  LET h == <<"0">> \o NatToString((n * 255) \div 10, 16)
  IN SubSeq(h, Len(h) - 1, Len(h))

\* A plausible slip: the channels written in the order red, green, blue.
hexToKmlColor_rgb(hexColor, opacity) ==
  IF hexColor.t # "string" THEN <<>>
  ELSE LET h == ToLowerCase(ReplaceFirst(hexColor.s, "#"))
           r == IF Len(h) = 3 THEN <<h[1], h[1]>> ELSE <<h[1], h[2]>>
           g == IF Len(h) = 3 THEN <<h[2], h[2]>> ELSE <<h[3], h[4]>>
           b == IF Len(h) = 3 THEN <<h[3], h[3]>> ELSE <<h[5], h[6]>>
           o == IF opacity.t = "number" /\ opacity.n >= 0 /\ opacity.n <= 10
                THEN AlphaHex(opacity.n) ELSE <<"f", "f">>
       IN IF Len(h) \notin {3, 6} THEN <<>>
          ELSE IF HexPairIsNaN(r) \/ HexPairIsNaN(g) \/ HexPairIsNaN(b) THEN <<>>
          ELSE o \o r \o g \o b

hexToKmlColor(hexColor, opacity) ==
  IF hexColor.t # "string" THEN <<>>
  ELSE LET h == ToLowerCase(ReplaceFirst(hexColor.s, "#"))
           r == IF Len(h) = 3 THEN <<h[1], h[1]>> ELSE <<h[1], h[2]>>
           g == IF Len(h) = 3 THEN <<h[2], h[2]>> ELSE <<h[3], h[4]>>
           b == IF Len(h) = 3 THEN <<h[3], h[3]>> ELSE <<h[5], h[6]>>
           o == IF opacity.t = "number" /\ opacity.n >= 0 /\ opacity.n <= 10
                THEN AlphaHex(opacity.n) ELSE <<"f", "f">>
       IN IF Len(h) \notin {3, 6} THEN <<>>
          ELSE IF HexPairIsNaN(r) \/ HexPairIsNaN(g) \/ HexPairIsNaN(b) THEN <<>>
          ELSE o \o b \o g \o r

(***************************************************************************)
(* General helpers: tag, attr                                              *)
(***************************************************************************)
\* attr(attributes): attributes is the sequence of [k, v] entries of the map
attr(attributes) ==
  IF attributes = <<>> THEN <<>>
  ELSE <<" ">> \o Join([i \in 1..Len(attributes) |->
                          <<attributes[i].k, "=", "\"">> \o encode(attributes[i].v) \o <<"\"">>],
                       <<" ">>)

\* tag(el, attributes, contents), contents a string
tag(el, attributes, contents) ==
  <<"<", el>> \o attr(attributes) \o <<">">> \o contents \o <<"<", "/", el, ">">>

\* tag(el, v) with v any value: a string or a number is the contents, null
\* and undefined give no contents, and so does a boolean (it is neither the
\* contents nor an attribute map)
tagValue(el, v) ==
  tag(el, <<>>, IF v.t \in {"string", "number"} THEN JsToString(v) ELSE <<>>)

(***************************************************************************)
(* Geometry types                                                          *)
(*                                                                         *)
(* A geometry is [kind, type, hasCoordinates, coordinates, hasGeometries,  *)
(* geometries]: kind "null" for a null or absent geometry; type "" for a   *)
(* missing type.  A number of a position is an integer, in tenths.         *)
(***************************************************************************)
Geometry(type, hasCoordinates, coordinates, hasGeometries, geometries) ==
  [kind |-> "object", type |-> type,
   hasCoordinates |-> hasCoordinates, coordinates |-> coordinates,
   hasGeometries |-> hasGeometries, geometries |-> geometries]

NullGeometry ==
  [kind |-> "null", type |-> "",
   hasCoordinates |-> FALSE, coordinates |-> <<>>,
   hasGeometries |-> FALSE, geometries |-> <<>>]

\* cds.join(',')
position(cds) == Join([i \in 1..Len(cds) |-> NumberToString(cds[i])], <<",">>)

linearRing(ring) == Join([i \in 1..Len(ring) |-> position(ring[i])], <<" ">>)

Point(coordinates) == tag("Point", <<>>, tag("coordinates", <<>>, position(coordinates)))

LineString(coordinates) ==
  tag("LineString", <<>>, tag("coordinates", <<>>, linearRing(coordinates)))

boundary(el, ring) ==
  tag(el, <<>>, tag("LinearRing", <<>>, tag("coordinates", <<>>, linearRing(ring))))

\* A plausible slip: every ring written as an outer boundary.
Polygon_allOuter(coordinates) ==
  IF Len(coordinates) = 0 THEN <<>>
  ELSE tag("Polygon", <<>>,
           Concat([i \in 1..Len(coordinates) |-> boundary("outerBoundaryIs", coordinates[i])]))

Polygon(coordinates) ==
  IF Len(coordinates) = 0 THEN <<>>
  ELSE LET outer == coordinates[1]
           inner == Tail(coordinates)
           outerRing == boundary("outerBoundaryIs", outer)
           innerRings == [i \in 1..Len(inner) |-> boundary("innerBoundaryIs", inner[i])]
       IN tag("Polygon", <<>>, outerRing \o Concat(innerRings))

MultiPoint(coordinates) ==
  IF Len(coordinates) = 0 THEN <<>>
  ELSE tag("MultiGeometry", <<>>, Concat([i \in 1..Len(coordinates) |-> Point(coordinates[i])]))

MultiPolygon(coordinates) ==
  IF Len(coordinates) = 0 THEN <<>>
  ELSE tag("MultiGeometry", <<>>, Concat([i \in 1..Len(coordinates) |-> Polygon(coordinates[i])]))

MultiLineString(coordinates) ==
  IF Len(coordinates) = 0 THEN <<>>
  ELSE tag("MultiGeometry", <<>>, Concat([i \in 1..Len(coordinates) |-> LineString(coordinates[i])]))

\* the keys of the geometry converters map
ConverterTypes ==
  {"Point", "LineString", "Polygon", "MultiPoint", "MultiPolygon", "MultiLineString",
   "GeometryCollection"}

\* geometry[type] is a function for the converters and also for the names
\* the map inherits from Object.prototype; the model knows two of these:
\* toString, which called without a receiver returns a string, and valueOf,
\* which called without a receiver raises a TypeError.
InheritedReturning == {"toString"}
InheritedRaising == {"valueOf"}

RECURSIVE isValid(_)
\* A plausible slip: a null or absent geometry let through as valid.
isValid_nullOk(g) ==
  \/ g.kind = "null"
  \/ /\ g.kind = "object"
     /\ g.type # ""
     /\ IF g.type = "GeometryCollection"
        THEN g.hasGeometries /\ \A i \in 1..Len(g.geometries) : isValid(g.geometries[i])
        ELSE g.hasCoordinates

isValid(g) ==
  /\ g.kind = "object"
  /\ g.type # ""
  /\ IF g.type = "GeometryCollection"
     THEN g.hasGeometries /\ \A i \in 1..Len(g.geometries) : isValid(g.geometries[i])
     ELSE g.hasCoordinates

isPoint(g) == g.type = "Point" \/ g.type = "MultiPoint"
isPolygon(g) == g.type = "Polygon" \/ g.type = "MultiPolygon"
isLine(g) == g.type = "LineString" \/ g.type = "MultiLineString"

RECURSIVE anyGeometryRaises(_)
\* anyGeometry(_) raises: reading .type of null, calling an inherited
\* function that needs a receiver, mapping over absent members or joining
\* absent coordinates
anyGeometryRaises(g) ==
  IF g.kind # "object" THEN TRUE
  ELSE IF g.type \in InheritedRaising THEN TRUE
  ELSE IF g.type = "GeometryCollection"
  THEN ~g.hasGeometries \/ \E i \in 1..Len(g.geometries) : anyGeometryRaises(g.geometries[i])
  ELSE g.type \in ConverterTypes /\ ~g.hasCoordinates

RECURSIVE anyGeometry(_)
anyGeometry(g) ==
  CASE g.type = "Point" -> Point(g.coordinates)
    [] g.type = "LineString" -> LineString(g.coordinates)
    [] g.type = "Polygon" -> Polygon(g.coordinates)
    [] g.type = "MultiPoint" -> MultiPoint(g.coordinates)
    [] g.type = "MultiPolygon" -> MultiPolygon(g.coordinates)
    [] g.type = "MultiLineString" -> MultiLineString(g.coordinates)
    [] g.type = "GeometryCollection" ->
         tag("MultiGeometry", <<>>,
             Concat([i \in 1..Len(g.geometries) |-> anyGeometry(g.geometries[i])]))
    [] g.type \in InheritedReturning -> <<"[object Undefined]">>
    [] OTHER -> <<>>

(***************************************************************************)
(* Properties and options                                                  *)
(*                                                                         *)
(* A property map is [isNull, entries]: entries the sequence of [k, v]     *)
(* in insertion order, isNull for a null or absent map.                    *)
(***************************************************************************)
Properties(entries) == [isNull |-> FALSE, entries |-> entries]

NullProperties == [isNull |-> TRUE, entries |-> <<>>]

Has(p, key) == \E i \in 1..Len(p.entries) : p.entries[i].k = key

\* _[key]
Get(p, key) ==
  IF Has(p, key) THEN p.entries[CHOOSE i \in 1..Len(p.entries) : p.entries[i].k = key].v
  ELSE Undefined

\* delete _[key] for every key of keys
Delete(p, keys) ==
  [p EXCEPT !.entries = SelectSeq(p.entries, LAMBDA e : e.k \notin keys)]

\* the key a string names; a key is one element of a string
Key(v) == IF v.t = "string" /\ Len(v.s) = 1 THEN v.s[1] ELSE ""

defaults ==
  Properties(<<[k |-> "documentName", v |-> Undefined],
               [k |-> "documentDescription", v |-> Undefined],
               [k |-> "name", v |-> Str(<<"name">>)],
               [k |-> "description", v |-> Str(<<"description">>)],
               [k |-> "simplestyle", v |-> Bool(FALSE)],
               [k |-> "timestamp", v |-> Str(<<"timestamp">>)]>>)

\* options.key after options = {...defaults, ...options}
option(options, key) == IF Has(options, key) THEN Get(options, key) ELSE Get(defaults, key)

documentName(options) ==
  IF ~IsNullish(option(options, "documentName"))
  THEN tagValue("name", option(options, "documentName")) ELSE <<>>

documentDescription(options) ==
  IF ~IsNullish(option(options, "documentDescription"))
  THEN tagValue("description", option(options, "documentDescription")) ELSE <<>>

name(p, options) ==
  IF p.isNull \/ ~Truthy(option(options, "name")) THEN <<>>
  ELSE LET v == Get(p, Key(option(options, "name")))
       IN IF Truthy(v) THEN tag("name", <<>>, encode(v)) ELSE <<>>

description(p, options) ==
  IF p.isNull \/ ~Truthy(option(options, "description")) THEN <<>>
  ELSE LET v == Get(p, Key(option(options, "description")))
       IN IF Truthy(v) THEN tag("description", <<>>, encode(v)) ELSE <<>>

timestamp(p, options) ==
  IF p.isNull \/ ~Truthy(option(options, "timestamp")) THEN <<>>
  ELSE LET v == Get(p, Key(option(options, "timestamp")))
       IN IF Truthy(v) THEN tag("TimeStamp", <<>>, tag("when", <<>>, encode(v))) ELSE <<>>

(***************************************************************************)
(* Data                                                                    *)
(***************************************************************************)
data(key, value) ==
  tag("Data", <<[k |-> "name", v |-> Str(<<key>>)]>>, tag("value", <<>>, encode(value)))

extendedData(p) ==
  IF p.isNull THEN <<>>
  ELSE tag("ExtendedData", <<>>,
           Concat([i \in 1..Len(p.entries) |-> data(p.entries[i].k, p.entries[i].v)]))

(***************************************************************************)
(* Marker style                                                            *)
(***************************************************************************)
hasMarkerStyle(p) ==
  /\ ~p.isNull
  /\ \/ Truthy(Get(p, "marker-size"))
     \/ Truthy(Get(p, "marker-symbol"))
     \/ Truthy(Get(p, "marker-color"))

\* A plausible slip: the copy handed on with nothing deleted.
removeMarkerStyles_none(p) == p

removeMarkerStyles(p) ==
  Delete(p, {"marker-shape", "marker-symbol", "marker-color", "marker-size"})

\* size.charAt(0) and (color).replace('#', '') need strings
iconUrlRaises(p) ==
  \/ Truthy(Get(p, "marker-size")) /\ Get(p, "marker-size").t # "string"
  \/ Truthy(Get(p, "marker-color")) /\ Get(p, "marker-color").t # "string"

iconUrl(p) ==
  LET size == IF Truthy(Get(p, "marker-size")) THEN Get(p, "marker-size").s
              ELSE <<"m", "e", "d", "i", "u", "m">>
      symbol == IF Truthy(Get(p, "marker-symbol"))
                THEN <<"-">> \o JsToString(Get(p, "marker-symbol")) ELSE <<>>
      color == ReplaceFirst(IF Truthy(Get(p, "marker-color")) THEN Get(p, "marker-color").s
                            ELSE <<"7", "e", "7", "e", "7", "e">>, "#")
  IN <<"https://api.tiles.mapbox.com/v3/marker/", "pin-", size[1]>>
       \o symbol \o <<"+">> \o color \o <<".png">>

iconSize ==
  tag("hotSpot",
      <<[k |-> "xunits", v |-> Str(<<"fraction">>)], [k |-> "yunits", v |-> Str(<<"fraction">>)],
        [k |-> "x", v |-> Num(5)], [k |-> "y", v |-> Num(5)]>>,
      <<>>)

markerStyle(p, styleHash) ==
  tag("Style", <<[k |-> "id", v |-> Str(styleHash)]>>,
      tag("IconStyle", <<>>, tag("Icon", <<>>, tag("href", <<>>, iconUrl(p)))) \o iconSize)

(***************************************************************************)
(* Polygon and line style                                                  *)
(***************************************************************************)
hasPolygonAndLineStyle(p) ==
  /\ ~p.isNull
  /\ \/ Truthy(Get(p, "stroke"))
     \/ Truthy(Get(p, "stroke-opacity"))
     \/ Truthy(Get(p, "stroke-width"))
     \/ Truthy(Get(p, "fill"))
     \/ Truthy(Get(p, "fill-opacity"))

removePolygonAndLineStyles(p) ==
  Delete(p, {"stroke", "stroke-width", "stroke-opacity", "fill", "fill-opacity"})

\* a || b for strings
OrElse(a, b) == IF a # <<>> THEN a ELSE b

polygonAndLineStyle(p, styleHash) ==
  LET lineStyle ==
        tag("LineStyle", <<>>,
            tag("color", <<>>,
                OrElse(hexToKmlColor(Get(p, "stroke"), Get(p, "stroke-opacity")),
                       <<"f", "f", "5", "5", "5", "5", "5", "5">>))
              \o tagValue("width", IF IsNullish(Get(p, "stroke-width")) THEN Num(20)
                                   ELSE Get(p, "stroke-width")))
      polyStyle ==
        IF Truthy(Get(p, "fill")) \/ Truthy(Get(p, "fill-opacity"))
        THEN tag("PolyStyle", <<>>,
                 tag("color", <<>>,
                     OrElse(hexToKmlColor(Get(p, "fill"), Get(p, "fill-opacity")),
                            <<"8", "8", "5", "5", "5", "5", "5", "5">>)))
        ELSE <<>>
  IN tag("Style", <<[k |-> "id", v |-> Str(styleHash)]>>, lineStyle \o polyStyle)

(***************************************************************************)
(* Style helpers: hashStyle                                                *)
(***************************************************************************)
\* .replace('#', '') is called on a truthy value that may be no string
hashStyleRaises(p) ==
  /\ ~p.isNull
  /\ \E key \in {"marker-color", "stroke", "fill"} :
       Truthy(Get(p, key)) /\ Get(p, key).t # "string"

\* if (_[key]) hash += prefix + _[key]
hashPlain(p, key, prefix) ==
  IF Truthy(Get(p, key)) THEN prefix \o JsToString(Get(p, key)) ELSE <<>>

\* if (_[key]) hash += prefix + _[key].replace('#', '')
hashColor(p, key, prefix) ==
  IF Truthy(Get(p, key)) THEN prefix \o ReplaceFirst(Get(p, key).s, "#") ELSE <<>>

\* if (_[key]) hash += prefix + _[key].toString().replace('.', '')
hashNumber(p, key, prefix) ==
  IF Truthy(Get(p, key)) THEN prefix \o ReplaceFirst(JsToString(Get(p, key)), ".") ELSE <<>>

hashStyle(p) ==
  IF p.isNull THEN <<>>
  ELSE hashPlain(p, "marker-symbol", <<"m", "s">>)
         \o hashColor(p, "marker-color", <<"m", "c">>)
         \o hashPlain(p, "marker-size", <<"m", "s">>)
         \o hashColor(p, "stroke", <<"s">>)
         \o hashNumber(p, "stroke-width", <<"s", "w">>)
         \o hashNumber(p, "stroke-opacity", <<"m", "o">>)
         \o hashColor(p, "fill", <<"f">>)
         \o hashNumber(p, "fill-opacity", <<"f", "o">>)

(***************************************************************************)
(* feature                                                                 *)
(*                                                                         *)
(* A feature is [id, geometry, properties].  The callback returns          *)
(* [out, hashes, raised]: the string returned, the registry after the      *)
(* call, and whether the call raised instead of returning.                 *)
(***************************************************************************)
Feature(id, g, p) == [id |-> id, geometry |-> g, properties |-> p]

Returns(out, hashes) == [out |-> out, hashes |-> hashes, raised |-> FALSE]

Raises(hashes) == [out |-> <<>>, hashes |-> hashes, raised |-> TRUE]

\* A plausible slip: the registry never consulted.
NotIn_always(hashes, styleHash) == TRUE

\* styleHashesArray.indexOf(styleHash) === -1
NotIn(hashes, styleHash) == \A i \in 1..Len(hashes) : hashes[i] # styleHash

placemark(f, properties, options, geometryString, styleReference) ==
  tag("Placemark",
      IF Truthy(f.id) THEN <<[k |-> "id", v |-> Str(JsToString(f.id))]>> ELSE <<>>,
      name(properties, options) \o description(properties, options)
        \o extendedData(properties) \o timestamp(properties, options)
        \o geometryString \o styleReference)

styleUrl(styleHash) == tag("styleUrl", <<>>, <<"#">> \o styleHash)

feature(options, hashes, f) ==
  IF f.properties.isNull \/ ~isValid(f.geometry) THEN Returns(<<>>, hashes)
  ELSE IF anyGeometryRaises(f.geometry) THEN Raises(hashes)
  ELSE
    LET properties == f.properties
        geometryString == anyGeometry(f.geometry)
        plain == Returns(placemark(f, properties, options, geometryString, <<>>), hashes)
    IN
    IF geometryString = <<>> THEN Returns(<<>>, hashes)
    ELSE IF ~Truthy(option(options, "simplestyle")) THEN plain
    ELSE IF hashStyleRaises(properties) THEN Raises(hashes)
    ELSE
      LET styleHash == hashStyle(properties)
          new == NotIn(hashes, styleHash)
          pushed == IF new THEN Append(hashes, styleHash) ELSE hashes
      IN
      IF styleHash = <<>> THEN plain
      ELSE IF isPoint(f.geometry) /\ hasMarkerStyle(properties)
      THEN IF new /\ iconUrlRaises(properties) THEN Raises(hashes)
           ELSE Returns((IF new THEN markerStyle(properties, styleHash) ELSE <<>>)
                          \o placemark(f, removeMarkerStyles(properties), options,
                                       geometryString, styleUrl(styleHash)),
                        pushed)
      ELSE IF (isPolygon(f.geometry) \/ isLine(f.geometry)) /\ hasPolygonAndLineStyle(properties)
      THEN Returns((IF new THEN polygonAndLineStyle(properties, styleHash) ELSE <<>>)
                     \o placemark(f, removePolygonAndLineStyles(properties), options,
                                  geometryString, styleUrl(styleHash)),
                   pushed)
      ELSE plain

(***************************************************************************)
(* root and tokml                                                          *)
(*                                                                         *)
(* The root object is [type, hasFeatures, features, id, geometry,          *)
(* properties, hasCoordinates, coordinates, hasGeometries, geometries]:    *)
(* the fields a FeatureCollection, a Feature and a geometry are read by.   *)
(***************************************************************************)
\* the features root hands to the callback, in the order it hands them
rootFeatures(r) ==
  IF r.type = "" THEN <<>>
  ELSE CASE r.type = "FeatureCollection" -> IF r.hasFeatures THEN r.features ELSE <<>>
         [] r.type = "Feature" -> <<Feature(r.id, r.geometry, r.properties)>>
         [] OTHER ->
              <<Feature(Undefined,
                        Geometry(r.type, r.hasCoordinates, r.coordinates,
                                 r.hasGeometries, r.geometries),
                        Properties(<<>>))>>

\* A plausible slip: the callback's result put in front of the earlier ones.
mapResult_prepend(results, out) == <<out>> \o results

\* Array.prototype.map keeps each result at the index of its element
mapResult(results, out) == Append(results, out)

xmlDeclaration == <<"<?xml version=\"1.0\" encoding=\"UTF-8\"?>">>

\* what tokml returns for a body
document(options, body) ==
  xmlDeclaration
    \o tag("kml", <<[k |-> "xmlns", v |-> Str(<<"http://www.opengis.net/kml/2.2">>)]>>,
           tag("Document", <<>>,
               documentName(options) \o documentDescription(options) \o body))

(***************************************************************************)
(* Bounds of the inputs                                                    *)
(***************************************************************************)
\* the longest colour string handed to hexToKmlColor
MaxHexLen == 7
\* the longest string handed to encode
MaxEncodeLen == 5

Strings(alphabet, maxLen) == UNION {[1..n -> alphabet] : n \in 0..maxLen}

\* '#', two hex digits (one upper case), a letter that is no hex digit, a blank
HexAlphabet == {"#", "F", "0", "z", " "}

HexColors == {Str(s) : s \in Strings(HexAlphabet, MaxHexLen)} \cup {Undefined, Num(0)}

\* in tenths: absent, 0, 0.5, 1, 1.1, -0.1, and the string "0.5"
Opacities == {Undefined, Num(0), Num(5), Num(10), Num(11), Num(-1), Str(<<"0", ".", "5">>)}

EncodeAlphabet == {"&", "\"", "'", "<", ">", "a", ";"}

EncodeInputs ==
  {Str(s) : s \in Strings(EncodeAlphabet, MaxEncodeLen)}
    \cup {Undefined, Null, Bool(TRUE), Bool(FALSE), Num(0), Num(15), Num(-20)}

\* the most features of a collection
MaxFeatures == 3
\* the most rings of a polygon, and the most points of a ring
MaxRings == 2
MaxPoints == 2
\* the longest documentName
MaxNameLen == 2

Root(type) ==
  [type |-> type, hasFeatures |-> FALSE, features |-> <<>>,
   id |-> Undefined, geometry |-> NullGeometry, properties |-> NullProperties,
   hasCoordinates |-> FALSE, coordinates |-> <<>>,
   hasGeometries |-> FALSE, geometries |-> <<>>]

FeatureCollectionRoot(features) ==
  [Root("FeatureCollection") EXCEPT !.hasFeatures = TRUE, !.features = features]

FeatureRoot(f) ==
  [Root("Feature") EXCEPT !.id = f.id, !.geometry = f.geometry, !.properties = f.properties]

GeometryRoot(g) ==
  [Root(g.type) EXCEPT !.hasCoordinates = g.hasCoordinates, !.coordinates = g.coordinates,
                       !.hasGeometries = g.hasGeometries, !.geometries = g.geometries]

Coordinates(type, coordinates) == Geometry(type, TRUE, coordinates, FALSE, <<>>)

Collection(geometries) == Geometry("GeometryCollection", FALSE, <<>>, TRUE, geometries)

Entry(key, value) == [k |-> key, v |-> value]

Red == Str(<<"f", "0", "0">>)

\* positions (0, 0) and (1.5, -2, 3)
PositionPool == <<<<0, 0>>, <<15, -20, 30>>>>

APoint == Coordinates("Point", PositionPool[1])

ALine == Coordinates("LineString", <<PositionPool[1], PositionPool[2]>>)

\* the features of the collections: points and lines with simplestyle
\* properties that agree, differ or collide, a feature without geometry, a
\* colour that is a number, a point with plain properties and the obsolete
\* marker-shape, and a point with a marker colour, marker-shape and one
\* plain property
FeaturePool ==
  <<Feature(Undefined, APoint, Properties(<<Entry("marker-color", Red)>>)),
    Feature(Undefined, APoint, Properties(<<Entry("marker-color", Str(<<"#", "f", "0", "0">>))>>)),
    Feature(Undefined, APoint, Properties(<<Entry("marker-color", Str(<<"0", "f", "0">>))>>)),
    Feature(Undefined, APoint, Properties(<<Entry("marker-symbol", Str(<<"x">>))>>)),
    Feature(Undefined, APoint, Properties(<<Entry("marker-size", Str(<<"x">>))>>)),
    Feature(Undefined, APoint,
            Properties(<<Entry("marker-color", Red), Entry("stroke", Red)>>)),
    Feature(Undefined, ALine,
            Properties(<<Entry("marker-color", Red), Entry("stroke", Red)>>)),
    Feature(Undefined, ALine, Properties(<<Entry("stroke-width", Num(15))>>)),
    Feature(Undefined, ALine, Properties(<<Entry("stroke-width", Num(150))>>)),
    Feature(Undefined, NullGeometry, Properties(<<Entry("marker-color", Red)>>)),
    Feature(Undefined, APoint, Properties(<<Entry("marker-color", Num(50))>>)),
    Feature(Undefined, APoint,
            Properties(<<Entry("marker-shape", Str(<<"p", "i", "n">>)),
                         Entry("name", Str(<<"a", "<">>))>>)),
    Feature(Undefined, APoint,
            Properties(<<Entry("marker-shape", Str(<<"p", "i", "n">>)),
                         Entry("marker-color", Red),
                         Entry("other", Str(<<"v">>))>>))>>

\* a collection of pool features, each with its position as its id
PoolCollection(ix) ==
  FeatureCollectionRoot([i \in 1..Len(ix) |-> [FeaturePool[ix[i]] EXCEPT !.id = Num(10 * i)]])

PoolIndexes == UNION {[1..n -> 1..Len(FeaturePool)] : n \in 0..MaxFeatures}

RingIndexes == UNION {[1..m -> 1..Len(PositionPool)] : m \in 0..MaxPoints}

PolygonIndexes == UNION {[1..r -> RingIndexes] : r \in 0..MaxRings}

\* the polygon coordinates an index structure names
Rings(px) == [i \in 1..Len(px) |-> [j \in 1..Len(px[i]) |-> PositionPool[px[i][j]]]]

\* roots that are no polygon: every other recognized kind with coordinates,
\* with empty coordinates and without; collections of geometries; a missing
\* type, an unknown one and two names inherited from Object.prototype
RootPool ==
  <<Root(""),
    Root("Foo"),
    [Root("Foo") EXCEPT !.hasCoordinates = TRUE],
    [Root("toString") EXCEPT !.hasCoordinates = TRUE],
    [Root("valueOf") EXCEPT !.hasCoordinates = TRUE],
    Root("toString"),
    Root("FeatureCollection"),
    Root("Feature"),
    FeatureRoot(Feature(Str(<<"a", "\"">>), APoint, NullProperties)),
    FeatureRoot(Feature(Undefined, NullGeometry, Properties(<<>>))),
    FeatureRoot(Feature(Str(<<"a", "\"">>), APoint,
                        Properties(<<Entry("name", Str(<<"n", "&">>)),
                                     Entry("description", Num(15)),
                                     Entry("timestamp", Bool(TRUE)),
                                     Entry("other", Null)>>))),
    GeometryRoot(APoint),
    GeometryRoot(Coordinates("Point", <<>>)),
    Root("Point"),
    GeometryRoot(ALine),
    GeometryRoot(Coordinates("LineString", <<>>)),
    Root("LineString"),
    Root("Polygon"),
    GeometryRoot(Coordinates("MultiPoint", <<PositionPool[1], PositionPool[2]>>)),
    GeometryRoot(Coordinates("MultiPoint", <<>>)),
    Root("MultiPoint"),
    GeometryRoot(Coordinates("MultiLineString", <<<<PositionPool[1]>>, <<PositionPool[2]>>>>)),
    GeometryRoot(Coordinates("MultiLineString", <<>>)),
    Root("MultiLineString"),
    GeometryRoot(Coordinates("MultiPolygon", <<<<<<PositionPool[1]>>>>, <<>>>>)),
    GeometryRoot(Coordinates("MultiPolygon", <<>>)),
    Root("MultiPolygon"),
    GeometryRoot(Collection(<<APoint, ALine>>)),
    GeometryRoot(Collection(<<>>)),
    GeometryRoot(Collection(<<APoint, Coordinates("Foo", <<>>)>>)),
    GeometryRoot(Collection(<<APoint, Geometry("Point", FALSE, <<>>, FALSE, <<>>)>>)),
    GeometryRoot(Collection(<<Collection(<<ALine>>), NullGeometry>>)),
    Root("GeometryCollection")>>

NameAlphabet == {"&", "\"", "'", "<", ">", "a"}

DocumentNames == {Str(s) : s \in Strings(NameAlphabet, MaxNameLen)} \cup {Null}

DocumentDescriptions == {Str(<<"d", "&">>), Bool(TRUE)}

\* the options a caller passes: a subset of the keys, in any combination
Options(simplestyle, names, descriptions) ==
  Properties((IF simplestyle THEN <<Entry("simplestyle", Bool(TRUE))>> ELSE <<>>)
               \o names \o descriptions)

\* the calls of tokml: collections of pool features with and without
\* simplestyle, every other root, polygons, and document names
TokmlCalls(a) ==
  \/ \E ix \in PoolIndexes, simplestyle \in BOOLEAN :
       a = [geojson |-> PoolCollection(ix), options |-> Options(simplestyle, <<>>, <<>>)]
  \/ \E i \in 1..Len(RootPool), simplestyle \in BOOLEAN :
       a = [geojson |-> RootPool[i], options |-> Options(simplestyle, <<>>, <<>>)]
  \/ \E px \in PolygonIndexes, asFeature \in BOOLEAN :
       a = [geojson |-> IF asFeature
                        THEN FeatureRoot(Feature(Num(0), Coordinates("Polygon", Rings(px)),
                                                 Properties(<<>>)))
                        ELSE GeometryRoot(Coordinates("Polygon", Rings(px))),
            options |-> Options(FALSE, <<>>, <<>>)]
  \/ \E n \in DocumentNames, d \in SUBSET DocumentDescriptions, ix \in {<<>>, <<1>>, <<12, 1>>} :
       /\ Cardinality(d) <= 1
       /\ a = [geojson |-> PoolCollection(ix),
               options |-> Options(TRUE, <<Entry("documentName", n)>>,
                                   IF d = {} THEN <<>>
                                   ELSE <<Entry("documentDescription", CHOOSE x \in d : TRUE)>>)]

(***************************************************************************)
(* tokml: one call, the callback once per feature                          *)
(***************************************************************************)
Init ==
  /\ fn = "tokml"
  /\ TokmlCalls(args)
  /\ pc = "call"
  /\ todo = <<>>
  /\ styleHashesArray = <<>>
  /\ parts = <<>>
  /\ result = <<>>
  /\ returned = <<>>

\* A plausible slip: the registry kept from one call to the next.
newStyleHashesArray_shared == styleHashesArray

\* const styleHashesArray: string[] = []
newStyleHashesArray == <<>>

\* root up to the first callback: the registry is created empty
RootEnter ==
  /\ fn = "tokml"
  /\ pc = "call"
  /\ todo' = rootFeatures(args.geojson)
  /\ styleHashesArray' = newStyleHashesArray
  /\ parts' = <<>>
  /\ pc' = "map"
  /\ UNCHANGED <<fn, args, result, returned>>

\* the callback on the next feature
FeatureStep ==
  /\ fn = "tokml"
  /\ pc = "map"
  /\ todo # <<>>
  /\ LET r == feature(args.options, styleHashesArray, Head(todo))
     IN IF r.raised
        THEN /\ pc' = "threw"
             /\ UNCHANGED <<todo, styleHashesArray, parts>>
        ELSE /\ pc' = "map"
             /\ todo' = Tail(todo)
             /\ styleHashesArray' = r.hashes
             /\ parts' = mapResult(parts, r.out)
  /\ UNCHANGED <<fn, args, result, returned>>

\* the results joined and wrapped in the envelope
RootReturn ==
  /\ fn = "tokml"
  /\ pc = "map"
  /\ todo = <<>>
  /\ result' = document(args.options, Concat(parts))
  /\ returned' = Append(returned, [args |-> args, result |-> result'])
  /\ pc' = "done"
  /\ UNCHANGED <<fn, args, todo, styleHashesArray, parts>>

Next == RootEnter \/ FeatureStep \/ RootReturn

Spec == Init /\ [][Next]_vars

(***************************************************************************)
(* tokml called several times in succession.  The variables of root and    *)
(* of map keep what the last call left in them until the next call's root  *)
(* assigns them; returned lists the calls that returned, with their        *)
(* documents, as the caller has seen them.                                 *)
(***************************************************************************)
\* the most calls in succession, and the most features of the first call
MaxCalls == 2
MaxCallFeatures == 2

\* styled collections for a first call
InitCalls ==
  /\ fn = "tokml"
  /\ \E ix \in UNION {[1..n -> 1..Len(FeaturePool)] : n \in 0..MaxCallFeatures} :
       args = [geojson |-> PoolCollection(ix), options |-> Options(TRUE, <<>>, <<>>)]
  /\ pc = "call"
  /\ todo = <<>>
  /\ styleHashesArray = <<>>
  /\ parts = <<>>
  /\ result = <<>>
  /\ returned = <<>>

\* the caller calls tokml again: with the same input, or with another
NextCall ==
  /\ fn = "tokml"
  /\ pc \in {"done", "threw"}
  /\ Len(returned) < MaxCalls
  /\ \E ix \in {<<1>>, <<3, 1, 7>>} :
       \/ args' = args
       \/ args' = [geojson |-> PoolCollection(ix), options |-> Options(TRUE, <<>>, <<>>)]
  /\ pc' = "call"
  /\ UNCHANGED <<fn, todo, styleHashesArray, parts, result, returned>>

NextCalls == Next \/ NextCall

SpecCalls == InitCalls /\ [][NextCalls]_vars

(***************************************************************************)
(* hexToKmlColor and encode called on their own                            *)
(***************************************************************************)
InitColor ==
  /\ fn = "hexToKmlColor"
  /\ args \in [hexColor : HexColors, opacity : {Undefined}]
  /\ pc = "call"
  /\ todo = <<>>
  /\ styleHashesArray = <<>>
  /\ parts = <<>>
  /\ result = <<>>
  /\ returned = <<>>

CallHexToKmlColor ==
  /\ fn = "hexToKmlColor"
  /\ pc = "call"
  /\ \E o \in Opacities :
       /\ args' = [args EXCEPT !.opacity = o]
       /\ result' = hexToKmlColor(args.hexColor, o)
  /\ pc' = "done"
  /\ UNCHANGED <<fn, todo, styleHashesArray, parts, returned>>

NextColor == CallHexToKmlColor

SpecColor == InitColor /\ [][NextColor]_vars

InitEncode ==
  /\ fn = "encode"
  /\ args \in [string : EncodeInputs]
  /\ pc = "call"
  /\ todo = <<>>
  /\ styleHashesArray = <<>>
  /\ parts = <<>>
  /\ result = <<>>
  /\ returned = <<>>

CallEncode ==
  /\ fn = "encode"
  /\ pc = "call"
  /\ result' = encode(args.string)
  /\ pc' = "done"
  /\ UNCHANGED <<fn, args, todo, styleHashesArray, parts, returned>>

NextEncode == CallEncode

SpecEncode == InitEncode /\ [][NextEncode]_vars

(***************************************************************************)
(* Claims                                                                  *)
(***************************************************************************)
\* the value of a hex digit, upper or lower case
DigitValue(c) == (CHOOSE i \in 1..Len(Digits) : Digits[i] = LowerChar(c)) - 1

IsHexChar(c) == IsHexDigit(LowerChar(c))

StripLeadingHash(s) == IF s # <<>> /\ s[1] = "#" THEN Tail(s) ELSE s

\* a 3- or 6-digit hex colour, the leading '#' optional
ValidHex(s) ==
  LET d == StripLeadingHash(s)
  IN Len(d) \in {3, 6} /\ \A i \in 1..Len(d) : IsHexChar(d[i])

\* the value of channel k (1 red, 2 green, 3 blue) of a valid hex colour
Channel(s, k) ==
  LET d == StripLeadingHash(s)
  IN IF Len(d) = 3 THEN 17 * DigitValue(d[k])
     ELSE 16 * DigitValue(d[2 * k - 1]) + DigitValue(d[2 * k])

IsLowerHex(c) == IsHexDigit(c)

\* the value of the two lower-case hex digits at i and i + 1
ByteAt(s, i) == 16 * DigitValue(s[i]) + DigitValue(s[i + 1])

ColorDone == fn = "hexToKmlColor" /\ pc = "done"

\* C6 (as claimed): hexToKmlColor returns the empty string for every string
\* that, its optional leading '#' removed, is not 3 or 6 characters long or
\* holds a character that is no hex digit, whatever the opacity.
C6_InvalidHexYieldsEmpty ==
  (ColorDone /\ args.hexColor.t = "string" /\ ~ValidHex(args.hexColor.s))
    => result = <<>>

\* C7: for every valid 3- or 6-digit hex colour the result is 8 lower-case hex
\* digits, the bytes alpha, blue, green, red in that order; alpha is
\* floor(opacity * 255) for a number in [0, 1] and 255 otherwise.
C7_ValidHexYieldsAbgr ==
  (ColorDone /\ args.hexColor.t = "string" /\ ValidHex(args.hexColor.s))
    => /\ Len(result) = 8
       /\ \A i \in 1..8 : IsLowerHex(result[i])
       /\ ByteAt(result, 1) =
            (IF args.opacity.t = "number" /\ args.opacity.n >= 0 /\ args.opacity.n <= 10
             THEN (args.opacity.n * 255) \div 10 ELSE 255)
       /\ ByteAt(result, 3) = Channel(args.hexColor.s, 3)
       /\ ByteAt(result, 5) = Channel(args.hexColor.s, 2)
       /\ ByteAt(result, 7) = Channel(args.hexColor.s, 1)

\* toKmlColor("#F00", 0.5) = 7f0000ff
C7_Witness ==
  /\ ColorDone
  /\ args.hexColor = Str(<<"#", "F", "0", "0">>)
  /\ args.opacity = Num(5)
  /\ result = <<"7", "f", "0", "0", "0", "0", "f", "f">>

Entities == {escapeMap(c) : c \in {"&", "\"", "'", "<", ">"}}

IsPrefixAt(s, i, e) ==
  /\ i + Len(e) - 1 <= Len(s)
  /\ \A k \in 1..Len(e) : s[i + k - 1] = e[k]

RECURSIVE Unescape(_)
\* the text an XML reader gets back: each named entity read as its character
Unescape(s) ==
  IF s = <<>> THEN <<>>
  ELSE IF \E c \in {"&", "\"", "'", "<", ">"} : IsPrefixAt(s, 1, escapeMap(c))
  THEN LET c == CHOOSE x \in {"&", "\"", "'", "<", ">"} : IsPrefixAt(s, 1, escapeMap(x))
       IN <<c>> \o Unescape(SubSeq(s, Len(escapeMap(c)) + 1, Len(s)))
  ELSE <<Head(s)>> \o Unescape(Tail(s))

\* every reserved character of s is part of a named entity
IsEscapedText(s) ==
  \A i \in 1..Len(s) :
    /\ s[i] \notin {"\"", "'", "<", ">"}
    /\ s[i] = "&" => \E e \in Entities : IsPrefixAt(s, i, e)

EncodeDone == fn = "encode" /\ pc = "done"

\* C10: encode of null or undefined is empty; otherwise the result holds no
\* reserved character outside a named entity and reads back, each entity once,
\* as the stringified input: every reserved character replaced exactly once,
\* every other character unchanged.
C10_EncodeSinglePass ==
  EncodeDone =>
    IF IsNullish(args.string) THEN result = <<>>
    ELSE /\ IsEscapedText(result)
         /\ Unescape(result) = JsToString(args.string)

\* escape of & < > " ' is &amp;&lt;&gt;&quot;&apos;
C10_Witness ==
  /\ EncodeDone
  /\ args.string = Str(<<"&", "<", ">", "\"", "'">>)
  /\ result = <<"&", "a", "m", "p", ";", "&", "l", "t", ";", "&", "g", "t", ";",
                "&", "q", "u", "o", "t", ";", "&", "a", "p", "o", "s", ";">>

(***************************************************************************)
(* Reading a document back                                                 *)
(***************************************************************************)
Occurrences(s, pat) == {i \in 1..Len(s) : s[i] = pat[1] /\ IsPrefixAt(s, i, pat)}

Count(s, pat) == Cardinality(Occurrences(s, pat))

RECURSIVE Sorted(_)
\* a finite set of integers as an increasing sequence
Sorted(S) ==
  IF S = {} THEN <<>>
  ELSE LET m == CHOOSE x \in S : \A y \in S : x <= y
       IN <<m>> \o Sorted(S \ {m})

\* where pat first starts at or after i; past the end when it never does
IndexFrom(s, i, pat) ==
  LET later == {j \in Occurrences(s, pat) : j >= i}
  IN IF later = {} THEN Len(s) + 1 ELSE CHOOSE j \in later : \A k \in later : j <= k

\* the text from i up to where pat starts
TextUntil(s, i, pat) == SubSeq(s, i, IndexFrom(s, i, pat) - 1)

OpenTag(el) == <<"<", el, ">">>

CloseTag(el) == <<"<", "/", el, ">">>

\* the contents of the elements el (written without attributes), in order
Contents(s, el) ==
  LET at == Sorted(Occurrences(s, OpenTag(el)))
  IN [k \in 1..Len(at) |-> TextUntil(s, at[k] + 3, CloseTag(el))]

\* the id attribute values, as written, of the elements el that carry one
IdAttributes(s, el) ==
  LET at == Sorted(Occurrences(s, <<"<", el, " ", "id", "=", "\"">>))
  IN [k \in 1..Len(at) |-> TextUntil(s, at[k] + 6, <<"\"">>)]

TokmlDone == fn = "tokml" /\ pc = "done"

IsCollection == args.geojson.type = "FeatureCollection" /\ args.geojson.hasFeatures

Simplestyle == Truthy(option(args.options, "simplestyle"))

\* the body of the document returned: what stands between the document-level
\* elements and the end of Document
Body(s) ==
  LET head == xmlDeclaration \o <<"<", "kml">>
                \o attr(<<[k |-> "xmlns", v |-> Str(<<"http://www.opengis.net/kml/2.2">>)]>>)
                \o <<">">> \o OpenTag("Document")
                \o documentName(args.options) \o documentDescription(args.options)
  IN SubSeq(s, Len(head) + 1, Len(s) - Len(CloseTag("Document")) - Len(CloseTag("kml")))

RECURSIVE mapFeatures(_, _, _)
\* _.features.map(feature(options, styleHashesArray)) as a whole:
\* [parts, hashes, raised]
mapFeatures(options, hashes, features) ==
  IF features = <<>> THEN [parts |-> <<>>, hashes |-> hashes, raised |-> FALSE]
  ELSE LET r == feature(options, hashes, Head(features))
       IN IF r.raised THEN [parts |-> <<>>, hashes |-> hashes, raised |-> TRUE]
          ELSE LET rest == mapFeatures(options, r.hashes, Tail(features))
               IN [parts |-> <<r.out>> \o rest.parts, hashes |-> rest.hashes,
                   raised |-> rest.raised]

RemoveAt(s, i) == SubSeq(s, 1, i - 1) \o SubSeq(s, i + 1, Len(s))

(***************************************************************************)
(* C1                                                                      *)
(***************************************************************************)
MarkerKeys == {"marker-size", "marker-symbol", "marker-color"}

\* the marker-style key/value set of a property map, a colour read without
\* its leading '#'
MarkerSet(p) ==
  {<<p.entries[i].k,
     IF p.entries[i].k = "marker-color" /\ p.entries[i].v.t = "string"
     THEN Str(StripLeadingHash(p.entries[i].v.s)) ELSE p.entries[i].v>> :
     i \in {j \in 1..Len(p.entries) : p.entries[j].k \in MarkerKeys}}

\* a collection of renderable points that all carry marker-style keys
MarkerCollection ==
  /\ IsCollection
  /\ Simplestyle
  /\ \A i \in 1..Len(args.geojson.features) :
       LET f == args.geojson.features[i]
       IN /\ isPoint(f.geometry)
          /\ isValid(f.geometry)
          /\ hasMarkerStyle(f.properties)

\* C1 (as claimed): with simplestyle, a collection of renderable points that
\* carry marker-style keys yields one Style block per distinct marker-style
\* key/value set, and each Placemark carries a styleUrl naming the block of
\* its set: equal sets share a reference, different sets do not.
C1_OneStylePerMarkerSet ==
  (TokmlDone /\ MarkerCollection) =>
    LET fs == args.geojson.features
        urls == [i \in 1..Len(fs) |-> Contents(parts[i], "styleUrl")]
        ids == IdAttributes(result, "Style")
    IN /\ Len(ids) = Cardinality({MarkerSet(fs[i].properties) : i \in 1..Len(fs)})
       /\ \A i \in 1..Len(fs) :
            /\ Len(urls[i]) = 1
            /\ \E k \in 1..Len(ids) : urls[i][1] = <<"#">> \o Unescape(ids[k])
       /\ \A i, j \in 1..Len(fs) :
            (MarkerSet(fs[i].properties) = MarkerSet(fs[j].properties)) <=> (urls[i] = urls[j])

(***************************************************************************)
(* C2                                                                      *)
(***************************************************************************)
\* the position in the collection of the feature whose id is written as text
FeatureWithId(text) ==
  {i \in 1..Len(args.geojson.features) : JsToString(args.geojson.features[i].id) = text}

\* C2: the Placemarks of a collection stand in the document in the order of
\* their features: each Placemark is of one feature of the input, and of two
\* Placemarks the later one is of the later feature; a Style block stands
\* right before a Placemark.
C2_OrderPreserved ==
  (TokmlDone /\ IsCollection) =>
    LET ids == IdAttributes(result, "Placemark")
    IN /\ \A k \in 1..Len(ids) : Cardinality(FeatureWithId(Unescape(ids[k]))) = 1
       /\ \A k, l \in 1..Len(ids) :
            k < l => \A i \in FeatureWithId(Unescape(ids[k])),
                        j \in FeatureWithId(Unescape(ids[l])) : i < j
       /\ \A i \in Occurrences(result, CloseTag("Style")) :
            IsPrefixAt(result, i + 4, <<"<", "Placemark">>)

\* three features, three Placemarks in their order, one of them styled
C2_Witness ==
  /\ TokmlDone
  /\ IsCollection
  /\ IdAttributes(result, "Placemark") = <<<<"1">>, <<"2">>, <<"3">>>>
  /\ Count(result, <<"<", "Style">>) = 2

(***************************************************************************)
(* C3                                                                      *)
(***************************************************************************)
\* C3: a feature of a collection whose geometry is null or absent returns
\* the empty string and leaves the registry alone, and the call ends as it
\* ends on the collection without that feature: the same fragments for the
\* other features, the same registry, the same document.
C3_NoGeometryIsolated ==
  (fn = "tokml" /\ pc \in {"done", "threw"} /\ IsCollection) =>
    \A i \in 1..Len(args.geojson.features) :
      args.geojson.features[i].geometry.kind = "null" =>
        LET without == mapFeatures(args.options, <<>>, RemoveAt(args.geojson.features, i))
        IN /\ (pc = "threw") = without.raised
           /\ pc = "done" =>
                /\ parts[i] = <<>>
                /\ RemoveAt(parts, i) = without.parts
                /\ styleHashesArray = without.hashes
                /\ result = document(args.options, Concat(without.parts))
                /\ Count(result, <<"<", "Placemark">>) <= Len(args.geojson.features) - 1

\* two features, one without geometry: exactly one Placemark
C3_Witness ==
  /\ TokmlDone
  /\ IsCollection
  /\ Len(args.geojson.features) = 2
  /\ args.geojson.features[1].geometry.kind = "null"
  /\ args.geojson.features[2].geometry.kind = "object"
  /\ Count(result, <<"<", "Placemark">>) = 1
  /\ Count(result, <<"<", "Style">>) = 1

(***************************************************************************)
(* C4                                                                      *)
(***************************************************************************)
\* C4 (as claimed): every call whose property values are scalars completes
\* and returns a string.
C4_NeverRaises == fn = "tokml" => pc # "threw"

(***************************************************************************)
(* C5                                                                      *)
(***************************************************************************)
\* C5 (as claimed): a documentName that is set stands as the first child of
\* Document, before every Placemark, its reserved characters written as
\* named entities only.
C5_DocumentNameEscaped ==
  (TokmlDone /\ option(args.options, "documentName").t = "string") =>
    LET at == IndexFrom(result, 1, OpenTag("Document")) + 3
        text == TextUntil(result, at + 3, CloseTag("name"))
    IN /\ IsPrefixAt(result, at, OpenTag("name"))
       /\ \A i \in Occurrences(result, <<"<", "Placemark">>) : at < i
       /\ IsEscapedText(text)
       /\ Unescape(text) = option(args.options, "documentName").s

(***************************************************************************)
(* C8                                                                      *)
(***************************************************************************)
RECURSIVE Split(_, _)
\* String.prototype.split(sep), sep one character
Split(s, sep) ==
  IF \A i \in 1..Len(s) : s[i] # sep THEN <<s>>
  ELSE LET at == CHOOSE i \in 1..Len(s) : s[i] = sep /\ \A j \in 1..(i - 1) : s[j] # sep
       IN <<SubSeq(s, 1, at - 1)>> \o Split(SubSeq(s, at + 1, Len(s)), sep)

RECURSIVE ParseNat(_)
ParseNat(s) == IF s = <<>> THEN 0 ELSE 10 * ParseNat(SubSeq(s, 1, Len(s) - 1)) + DigitValue(s[Len(s)])

\* the number, in tenths, that a decimal numeral with at most one
\* fractional digit denotes
ParseNumber(s) ==
  LET negative == s # <<>> /\ s[1] = "-"
      a == IF negative THEN Tail(s) ELSE s
      p == Split(a, ".")
      tenths == 10 * ParseNat(p[1]) + (IF Len(p) > 1 THEN ParseNat(p[2]) ELSE 0)
  IN IF negative THEN -tenths ELSE tenths

ParsePosition(s) == LET p == Split(s, ",") IN [i \in 1..Len(p) |-> ParseNumber(p[i])]

\* the ring a coordinates text denotes
ParseRing(s) ==
  IF s = <<>> THEN <<>>
  ELSE LET p == Split(s, " ") IN [i \in 1..Len(p) |-> ParsePosition(p[i])]

IsPolygonCall ==
  /\ fn = "tokml"
  /\ \/ args.geojson.type = "Polygon" /\ args.geojson.hasCoordinates
     \/ /\ args.geojson.type = "Feature"
        /\ args.geojson.geometry.type = "Polygon"
        /\ args.geojson.geometry.hasCoordinates
        /\ ~args.geojson.properties.isNull

PolygonRings ==
  IF args.geojson.type = "Polygon" THEN args.geojson.coordinates
  ELSE args.geojson.geometry.coordinates

\* the boundary elements of a document, by name, in document order
Boundaries(s) ==
  LET outer == Occurrences(s, OpenTag("outerBoundaryIs"))
      at == Sorted(outer \cup Occurrences(s, OpenTag("innerBoundaryIs")))
  IN [k \in 1..Len(at) |-> [at |-> at[k],
                            el |-> IF at[k] \in outer THEN "outerBoundaryIs"
                                   ELSE "innerBoundaryIs"]]

\* C8: a Polygon with rings is written as one Polygon element holding one
\* boundary per ring, in the order of the rings: the first an
\* outerBoundaryIs, every other one an innerBoundaryIs, each holding one
\* coordinates text that reads back as exactly the points of its ring; a
\* Polygon without rings yields no markup at all.
C8_PolygonRings ==
  (IsPolygonCall /\ pc = "done") =>
    LET rings == PolygonRings
        bs == Boundaries(result)
    IN IF rings = <<>>
       THEN Body(result) = <<>>
       ELSE /\ Count(result, OpenTag("Polygon")) = 1
            /\ Len(bs) = Len(rings)
            /\ Count(result, OpenTag("coordinates")) = Len(rings)
            /\ \A k \in 1..Len(rings) :
                 LET inside == TextUntil(result, bs[k].at + 3, CloseTag(bs[k].el))
                 IN /\ bs[k].el = (IF k = 1 THEN "outerBoundaryIs" ELSE "innerBoundaryIs")
                    /\ inside = tag("LinearRing", <<>>,
                                    tag("coordinates", <<>>, Contents(inside, "coordinates")[1]))
                    /\ ParseRing(Contents(inside, "coordinates")[1]) = rings[k]

\* two rings of different points: one outer and one inner boundary
C8_Witness ==
  /\ IsPolygonCall
  /\ pc = "done"
  /\ Len(PolygonRings) = 2
  /\ PolygonRings[1] # PolygonRings[2]
  /\ Len(PolygonRings[1]) = 2
  /\ Count(result, OpenTag("outerBoundaryIs")) = 1
  /\ Count(result, OpenTag("innerBoundaryIs")) = 1

(***************************************************************************)
(* C9                                                                      *)
(***************************************************************************)
RootAsGeometry ==
  Geometry(args.geojson.type, args.geojson.hasCoordinates, args.geojson.coordinates,
           args.geojson.hasGeometries, args.geojson.geometries)

\* C9 (as claimed): the call returns, and the body is the concatenation of
\* the features' fragments for a FeatureCollection, the feature's fragment
\* for a Feature, the fragment of an anonymous feature with empty properties
\* for a recognized geometry type, and empty for any other or a missing type.
C9_BodyByRootType ==
  (fn = "tokml" /\ pc \in {"done", "threw"}) =>
    LET r == args.geojson
        one(f) == feature(args.options, <<>>, f)
    IN CASE r.type = "FeatureCollection" ->
              LET all == mapFeatures(args.options, <<>>, IF r.hasFeatures THEN r.features ELSE <<>>)
              IN IF all.raised THEN pc = "threw"
                 ELSE pc = "done" /\ Body(result) = Concat(all.parts)
         [] r.type = "Feature" ->
              IF one(Feature(r.id, r.geometry, r.properties)).raised THEN pc = "threw"
              ELSE pc = "done" /\ Body(result) = one(Feature(r.id, r.geometry, r.properties)).out
         [] r.type \in ConverterTypes \ {"FeatureCollection", "Feature"} ->
              /\ pc = "done"
              /\ Body(result) = one(Feature(Undefined, RootAsGeometry, Properties(<<>>))).out
         [] OTHER -> pc = "done" /\ Body(result) = <<>>

(***************************************************************************)
(* C11                                                                     *)
(***************************************************************************)
\* the identifiers the styleUrl elements of a text refer to
StyleUrlTargets(s) ==
  {SubSeq(u, 2, Len(u)) : u \in {Contents(s, "styleUrl")[k] : k \in 1..Len(Contents(s, "styleUrl"))}}

\* the identifiers of the Style blocks of a text
StyleIds(s) ==
  {Unescape(IdAttributes(s, "Style")[k]) : k \in 1..Len(IdAttributes(s, "Style"))}

\* C11: the registry is empty when a call's first feature is processed,
\* whatever the calls before it left; calls with equal input and options
\* return equal documents; and every document defines the styles it refers to.
C11_RegistryPerCall ==
  /\ (fn = "tokml" /\ pc = "map" /\ parts = <<>>) => styleHashesArray = <<>>
  /\ TokmlDone =>
       /\ returned[Len(returned)] = [args |-> args, result |-> result]
       /\ \A i \in 1..Len(returned) : returned[i].args = args => returned[i].result = result
       /\ StyleUrlTargets(result) \subseteq StyleIds(result)

\* the same styled collection converted twice: both documents hold the
\* Style block, and the second call's registry started over
C11_Witness ==
  /\ Len(returned) = 2
  /\ returned[1].args = returned[2].args
  /\ returned[1].result = returned[2].result
  /\ Count(returned[2].result, <<"<", "Style">>) = 1
  /\ Count(returned[2].result, <<"<", "styleUrl", ">">>) = 2

(***************************************************************************)
(* C12                                                                     *)
(***************************************************************************)
LineKeys == {"stroke", "stroke-width", "stroke-opacity", "fill", "fill-opacity"}

\* the names of the Data entries of a text
DataNames(s) == {s[i + 6] : i \in Occurrences(s, <<"<", "Data", " ", "name", "=", "\"">>)}

\* the keys of a property map
Keys(p) == {p.entries[i].k : i \in 1..Len(p.entries)}

IsStyled(fragment) == Count(fragment, OpenTag("styleUrl")) > 0

\* the style keys the path applied to a feature consumes
ConsumedKeys(f) == IF isPoint(f.geometry) THEN MarkerKeys ELSE LineKeys

StyledCollection == TokmlDone /\ IsCollection /\ Simplestyle

\* C12 (as claimed): in a styled Placemark no key consumed by the applied
\* path is a Data entry, and every other key of the feature is one.
C12_ConsumedKeysOnly ==
  StyledCollection =>
    \A i \in 1..Len(parts) :
      LET f == args.geojson.features[i]
      IN IsStyled(parts[i]) =>
           DataNames(parts[i]) = Keys(f.properties) \ ConsumedKeys(f)

\* C12 (amended): in a styled Placemark no key consumed by the applied path
\* is a Data entry, and every other key of the feature is one, except the
\* obsolete marker-shape of a feature styled as a marker, which is removed
\* with the marker keys.
C12_ConsumedKeysAndMarkerShape ==
  StyledCollection =>
    \A i \in 1..Len(parts) :
      LET f == args.geojson.features[i]
      IN IsStyled(parts[i]) =>
           DataNames(parts[i]) =
             Keys(f.properties)
               \ (ConsumedKeys(f) \cup IF isPoint(f.geometry) THEN {"marker-shape"} ELSE {})

\* a styled point whose plain property is a Data entry and whose marker
\* colour and marker-shape are not; a styled line whose marker colour is one
C12_Witness ==
  /\ StyledCollection
  /\ Len(parts) = 2
  /\ IsStyled(parts[1]) /\ IsStyled(parts[2])
  /\ Keys(args.geojson.features[1].properties) = {"marker-shape", "marker-color", "other"}
  /\ DataNames(parts[1]) = {"other"}
  /\ isLine(args.geojson.features[2].geometry)
  /\ DataNames(parts[2]) = {"marker-color"}

(***************************************************************************)
(* C13                                                                     *)
(***************************************************************************)
\* C13 (as claimed): with simplestyle, marker-shape is no Data entry of the
\* Placemark of a point, whatever other keys the feature carries.
C13_MarkerShapeStripped ==
  StyledCollection =>
    \A i \in 1..Len(parts) :
      isPoint(args.geojson.features[i].geometry) => "marker-shape" \notin DataNames(parts[i])

(***************************************************************************)
(* C14                                                                     *)
(***************************************************************************)
\* the values a feature carries for the keys of its path
PathValues(f) == [k \in ConsumedKeys(f) |-> Get(f.properties, k)]

\* C14 (as claimed): two styled features of one path whose values for the
\* keys of that path are identical refer to the same Style block, whatever
\* their other keys.
C14_SignatureFromPathKeys ==
  StyledCollection =>
    \A i, j \in 1..Len(parts) :
      LET f == args.geojson.features[i]
          g == args.geojson.features[j]
      IN (/\ IsStyled(parts[i]) /\ IsStyled(parts[j])
          /\ isPoint(f.geometry) = isPoint(g.geometry)
          /\ PathValues(f) = PathValues(g))
           => Contents(parts[i], "styleUrl") = Contents(parts[j], "styleUrl")

(***************************************************************************)
(* C15                                                                     *)
(***************************************************************************)
SimpleKinds ==
  {"Point", "LineString", "Polygon", "MultiPoint", "MultiLineString", "MultiPolygon"}

\* C15 (as claimed): a geometry of a kind that is no collection whose
\* coordinates are present and empty converts to empty markup, and the
\* feature that carries it adds nothing to the document.
C15_EmptyCoordinatesEmptyMarkup ==
  (/\ TokmlDone
   /\ args.geojson.type \in SimpleKinds
   /\ args.geojson.hasCoordinates
   /\ args.geojson.coordinates = <<>>)
    => /\ anyGeometry(RootAsGeometry) = <<>>
       /\ Body(result) = <<>>
       /\ Count(result, <<"<", "Placemark">>) = 0

(***************************************************************************)
(* C16                                                                     *)
(***************************************************************************)
\* what a member of a collection contributes as claimed: its markup when it
\* is valid, the empty string when it is not
MemberMarkup(m) == IF isValid(m) /\ ~anyGeometryRaises(m) THEN anyGeometry(m) ELSE <<>>

\* C16 (as claimed): a GeometryCollection is converted member by member,
\* an invalid member giving the empty string and the others their markup,
\* in order, inside one MultiGeometry of the feature's Placemark.
C16_InvalidMemberSkipped ==
  (/\ TokmlDone
   /\ args.geojson.type = "GeometryCollection"
   /\ args.geojson.hasGeometries)
    => LET members == args.geojson.geometries
       IN Body(result) =
            tag("Placemark", <<>>,
                extendedData(Properties(<<>>))
                  \o tag("MultiGeometry", <<>>,
                         Concat([i \in 1..Len(members) |-> MemberMarkup(members[i])])))

(***************************************************************************)
(* C17                                                                     *)
(***************************************************************************)
RECURSIVE Until(_, _, _)
\* where pat first starts at or after i, found by reading on from i
Until(s, i, pat) ==
  IF i > Len(s) \/ IsPrefixAt(s, i, pat) THEN i ELSE Until(s, i + 1, pat)

\* where the Style blocks with an identifier start
StyleBlocksOf(s, id) ==
  {i \in Occurrences(s, <<"<", "Style", " ", "id", "=", "\"">>) :
     Unescape(SubSeq(s, i + 6, Until(s, i + 6, <<"\"">>) - 1)) = id}

\* where the styleUrl elements that refer to an identifier start
StyleUrlsTo(s, id) ==
  {i \in Occurrences(s, OpenTag("styleUrl")) :
     SubSeq(s, i + 3, Until(s, i + 3, CloseTag("styleUrl")) - 1) = <<"#">> \o id}

\* what holds of the fragments returned so far and the registry
StylesSoFar ==
  LET s == Concat(parts)
      blocks == Occurrences(s, <<"<", "Style">>)
      blockId == [b \in blocks |-> Unescape(SubSeq(s, b + 6, Until(s, b + 6, <<"\"">>) - 1))]
      urls == Occurrences(s, OpenTag("styleUrl"))
      urlId == [u \in urls |-> SubSeq(s, u + 4, Until(s, u + 3, CloseTag("styleUrl")) - 1)]
      opens == Occurrences(s, <<"<", "Placemark">>)
      closes == Occurrences(s, CloseTag("Placemark"))
      inPlacemark(i) == Cardinality({j \in opens : j < i}) > Cardinality({j \in closes : j < i})
      placemarkOf(i) == CHOOSE j \in opens : j < i /\ \A k \in opens : k < i => k <= j
  IN /\ \A b \in blocks : IsPrefixAt(s, b, <<"<", "Style", " ", "id", "=", "\"">>)
     /\ \A u \in urls :
          /\ s[u + 3] = "#"
          /\ inPlacemark(u)
          /\ Cardinality({b \in blocks : blockId[b] = urlId[u]}) = 1
          /\ \A b \in blocks : blockId[b] = urlId[u] => b < placemarkOf(u)
     /\ \A b \in blocks : ~inPlacemark(b)
     /\ {styleHashesArray[k] : k \in 1..Len(styleHashesArray)} = {blockId[b] : b \in blocks}
     /\ Len(styleHashesArray) = Cardinality(blocks)

\* a step of one call only adds to the registry, and adds an identifier
\* only together with its Style block
RegistryGrows ==
  (fn = "tokml" /\ pc = "map" /\ pc' # "call") =>
    /\ Len(styleHashesArray') >= Len(styleHashesArray)
    /\ SubSeq(styleHashesArray', 1, Len(styleHashesArray)) = styleHashesArray
    /\ parts' # parts =>
         /\ SubSeq(parts', 1, Len(parts)) = parts
         /\ Len(styleHashesArray') - Len(styleHashesArray)
              = Count(parts'[Len(parts')], <<"<", "Style">>)

\* C17: after any prefix of the features, every styleUrl written so far
\* names an identifier with exactly one Style block, that block stands
\* outside every Placemark and before the first Placemark that refers to it,
\* the registry holds exactly the identifiers of the blocks written, and a
\* step only adds to it, one identifier per block.
C17_StyleBeforeReference == [](fn = "tokml" => StylesSoFar) /\ [][RegistryGrows]_vars

\* two features processed and one to go: one block, two references to it
C17_Witness ==
  /\ fn = "tokml"
  /\ pc = "map"
  /\ Len(todo) = 1
  /\ Len(styleHashesArray) = 1
  /\ Cardinality(StyleBlocksOf(Concat(parts), styleHashesArray[1])) = 1
  /\ Cardinality(StyleUrlsTo(Concat(parts), styleHashesArray[1])) = 2

(***************************************************************************)
(* C18                                                                     *)
(***************************************************************************)
\* the Style blocks of a document that carry the identifier a fragment's
\* styleUrl names, each from its opening to its closing tag
BlocksReferredTo(s, fragment) ==
  LET url == Contents(fragment, "styleUrl")[1]
      id == SubSeq(url, 2, Len(url))
  IN {SubSeq(s, b, Until(s, b, CloseTag("Style")) + 3) : b \in StyleBlocksOf(s, id)}

\* C18 (as claimed): the block a styled Placemark refers to is of the kind
\* of the feature's path: IconStyle for a point, LineStyle for a line or
\* polygon.
C18_BlockOfOwnPath ==
  StyledCollection =>
    \A i \in 1..Len(parts) :
      IsStyled(parts[i]) =>
        \A block \in BlocksReferredTo(result, parts[i]) :
          IF isPoint(args.geojson.features[i].geometry)
          THEN Count(block, <<"<", "IconStyle">>) = 1
          ELSE Count(block, <<"<", "LineStyle">>) = 1

(***************************************************************************)
(* C19                                                                     *)
(***************************************************************************)
\* the Style block a feature gets when it is converted on its own
OwnStyle(f) ==
  LET own == feature(args.options, <<>>, f).out
  IN SubSeq(own, 1, Until(own, 1, CloseTag("Style")) + 3)

\* C19 (as claimed): two styled features of one path that refer to the same
\* identifier would each, on its own, have got the same Style block.
C19_SignatureInjective ==
  StyledCollection =>
    \A i, j \in 1..Len(parts) :
      LET f == args.geojson.features[i]
          g == args.geojson.features[j]
      IN (/\ IsStyled(parts[i]) /\ IsStyled(parts[j])
          /\ isPoint(f.geometry) = isPoint(g.geometry)
          /\ Contents(parts[i], "styleUrl") = Contents(parts[j], "styleUrl"))
           => OwnStyle(f) = OwnStyle(g)

====
